---- MODULE Spec2Model ----
(***************************************************************************)
(* LureNotifier (lastname_firstInitial_challenge.py): lexical detection of *)
(* phishing lures in domain names and resolution of the users to notify    *)
(* through keyword subscriptions and the reporting hierarchy.              *)
(*                                                                         *)
(* A Python str is a sequence of one-character strings; an insertion-      *)
(* ordered dict that the code iterates is a sequence of <<key, value>>     *)
(* pairs with distinct keys; a dict that is only looked up is a function.  *)
(***************************************************************************)
EXTENDS Naturals, Sequences, FiniteSets, TLC

VARIABLES
    TARGET_DOMAINS,         \* self.TARGET_DOMAINS
    SUBSCRIPTIONS,          \* self.SUBSCRIPTIONS
    USER_TO_MANAGER_DICT,   \* self.USER_TO_MANAGER_DICT
    USER_REPORTS_CHAIN_MAP, \* self.USER_REPORTS_CHAIN_MAP
    TERM_NOTIFICATIONS_MAP, \* self.TERM_NOTIFICATIONS_MAP
    pc,                     \* position in __init__ / the query phase
    user_hierarchy_map,     \* local of _build_user_reports_chain_map
    stack,                  \* call stack of gather_subordinates
    loop_i,                 \* position of the loop of line 32
    lures,                  \* the lure list the caller holds
    lures_src,              \* <<D>> once lures is the return value of identify_lures(D)
    call,                   \* the last call: operation, argument, return value
    raised,                 \* an exception has propagated out of a call
    probe,                  \* history: the domain list whose result is recorded
    probe_result            \* history: first result of notify(identify_lures(probe)),
                            \* and whether that call has been made again

vars == <<TARGET_DOMAINS, SUBSCRIPTIONS, USER_TO_MANAGER_DICT,
          USER_REPORTS_CHAIN_MAP, TERM_NOTIFICATIONS_MAP, pc,
          user_hierarchy_map, stack, loop_i, lures, lures_src, call, raised,
          probe, probe_result>>

instance_maps == <<USER_REPORTS_CHAIN_MAP, TERM_NOTIFICATIONS_MAP, SUBSCRIPTIONS,
                   USER_TO_MANAGER_DICT>>

build_vars == <<user_hierarchy_map, stack, loop_i>>

\* what a step of gather_subordinates leaves alone
outside_build == <<TARGET_DOMAINS, SUBSCRIPTIONS, USER_TO_MANAGER_DICT,
                   USER_REPORTS_CHAIN_MAP, TERM_NOTIFICATIONS_MAP, pc, lures,
                   lures_src, call, raised, probe, probe_result>>

-----------------------------------------------------------------------------
(* Bounds *)

NumUsers == 3

MaxDomains == 2

MaxSubscriptions == 3

-----------------------------------------------------------------------------
(* Strings *)

UpperCase ==
    <<"A","B","C","D","E","F","G","H","I","J","K","L","M","N","O","P","Q","R","S","T","U","V","W","X","Y","Z">>

LowerCase ==
    <<"a","b","c","d","e","f","g","h","i","j","k","l","m","n","o","p","q","r","s","t","u","v","w","x","y","z">>

LowerChar(c) ==
    IF \E i \in 1..Len(UpperCase) : UpperCase[i] = c
    THEN LowerCase[CHOOSE i \in 1..Len(UpperCase) : UpperCase[i] = c]
    ELSE c

\* str.lower()
lower(s) == [i \in 1..Len(s) |-> LowerChar(s[i])]

\* Python's `term in s` on strings
Contains(term, s) ==
    \E off \in 0..Len(s) :
        /\ off + Len(term) <= Len(s)
        /\ \A i \in 1..Len(term) : s[off + i] = term[i]

cisco == <<"c","i","s","c","o">>

gmail == <<"g","m","a","i","l">>

login == <<"l","o","g","i","n">>

mail == <<"m","a","i","l">>

paying == <<"p","a","y","i","n","g">>

paypal == <<"p","a","y","p","a","l">>

dotgov == <<".","g","o","v">>

\* line 5: the class attribute, which no code assigns
TERMS == <<cisco, gmail, login, mail, paying, paypal, dotgov>>

-----------------------------------------------------------------------------
(* dict helpers *)

EmptyMap == [x \in {} |-> {}]

Put(m, k, v) == [x \in (DOMAIN m) \cup {k} |-> IF x = k THEN v ELSE m[x]]

\* dict.get(k, default)
DictGet(m, k, default) == IF k \in DOMAIN m THEN m[k] ELSE default

\* keys of an insertion-ordered dict
Keys(d) == {d[i][1] : i \in 1..Len(d)}

\* a list append where the code assigns into a dict
DictAppend(d, k, v) == Append(d, <<k, v>>)

\* d[k] = v on an insertion-ordered dict: a present key keeps its position
DictSet(d, k, v) ==
    IF k \in Keys(d)
    THEN [i \in 1..Len(d) |-> IF d[i][1] = k THEN <<k, v>> ELSE d[i]]
    ELSE Append(d, <<k, v>>)

-----------------------------------------------------------------------------
(* Inputs handed over by the loaders *)

UserNames == <<"A", "B", "C", "D", "E", "F">>

Users == {UserNames[i] : i \in 1..NumUsers}

SeqsUpTo(S, n) == UNION {[1..k -> S] : k \in 0..n}

DistinctKeys(d) == \A i, j \in 1..Len(d) : d[i][1] = d[j][1] => i = j

\* every user -> manager dict over Users, in every insertion order
ManagerDicts == {d \in SeqsUpTo(Users \X Users, NumUsers) : DistinctKeys(d)}

SubTerms == {cisco, mail}

\* line 131-139 of load_user_subscriptions: the entries from position k
RECURSIVE LoadSubscriptions(_, _, _)
LoadSubscriptions(entries, k, subscriptions) ==
    IF k > Len(entries) THEN subscriptions
    ELSE LET user_id == entries[k][1]
             term == entries[k][2]
             present == IF user_id \notin Keys(subscriptions)
                        THEN Append(subscriptions, <<user_id, <<>> >>)
                        ELSE subscriptions
         IN  LoadSubscriptions(entries, k + 1,
                 [i \in 1..Len(present) |->
                     IF present[i][1] = user_id
                     THEN <<user_id, Append(present[i][2], term)>>
                     ELSE present[i]])

\* every subscription dict loaded from at most MaxSubscriptions (id, term) entries
SubscriptionDicts ==
    {LoadSubscriptions(entries, 1, <<>>) :
        entries \in SeqsUpTo(Users \X SubTerms, MaxSubscriptions)}

CiscoMailCom == <<"C","i","s","c","o","M","a","i","l",".","c","o","m">>

GmailGov == <<"g","m","a","i","l",".","g","o","v">>

CiscoHerokuCom == <<"c","i","s","c","o",".","h","e","r","o","k","u",".","c","o","m">>

AppleCom == <<"a","p","p","l","e",".","c","o","m">>

PaypalLoginAppspotCom ==
    <<"p","a","y","p","a","l","-","l","o","g","i","n",".","a","p","p","s","p","o","t",".","c","o","m">>

ciscomailcom == <<"c","i","s","c","o","m","a","i","l",".","c","o","m">>

DomainPool == {CiscoMailCom, GmailGov, CiscoHerokuCom}

\* the domain list of test_identify_lures
TestDomains == <<PaypalLoginAppspotCom, ciscomailcom, CiscoHerokuCom, AppleCom>>

DomainLists == SeqsUpTo(DomainPool, MaxDomains) \cup {TestDomains}

\* every domain of a domain list
Domains == UNION {{domains[k] : k \in 1..Len(domains)} : domains \in DomainLists}

\* B reports to A, C reports to B, in both insertion orders
ChainTopDown == << <<"B", "A">>, <<"C", "B">> >>

ChainBottomUp == << <<"C", "B">>, <<"B", "A">> >>

HierarchySamples == {<<>>, ChainTopDown, ChainBottomUp}

SubsExample == << <<"A", <<cisco>> >>, <<"C", <<mail>> >> >>

\* B subscribes to one term, A to two
SubsOverlap == << <<"B", <<mail>> >>, <<"A", <<cisco, mail>> >> >>

SubscriptionSamples == {<<>>, SubsExample, SubsOverlap}

CtorDomainSamples == {<<>>, TestDomains}

-----------------------------------------------------------------------------
(* _build_user_reports_chain_map, one step of gather_subordinates at a time *)

\* deepest recursion the model follows; an acyclic map needs at most NumUsers frames
StackCap == NumUsers + 3

Frame(u) == [user_id |-> u, subordinates |-> {}, i |-> 1]

Top == stack[Len(stack)]

SetTop(f) == [stack EXCEPT ![Len(stack)] = f]

\* line 32-33: the loop takes its next key and calls gather_subordinates;
\* line 21-22: the user is memoized, the call returns at once
LoopCallMemo ==
    /\ pc = "build" /\ stack = <<>>
    /\ loop_i <= Len(USER_TO_MANAGER_DICT)
    /\ USER_TO_MANAGER_DICT[loop_i][1] \in DOMAIN user_hierarchy_map
    /\ loop_i' = loop_i + 1
    /\ UNCHANGED <<user_hierarchy_map, stack, outside_build>>

\* line 32-33 and 24: the user is not memoized, a frame is entered
LoopCallEnter ==
    /\ pc = "build" /\ stack = <<>>
    /\ loop_i <= Len(USER_TO_MANAGER_DICT)
    /\ USER_TO_MANAGER_DICT[loop_i][1] \notin DOMAIN user_hierarchy_map
    /\ loop_i' = loop_i + 1
    /\ stack' = <<Frame(USER_TO_MANAGER_DICT[loop_i][1])>>
    /\ UNCHANGED <<user_hierarchy_map, outside_build>>

\* line 25-26: the item's manager is not this frame's user
GatherSkip ==
    /\ pc = "build" /\ stack # <<>>
    /\ Top.i <= Len(USER_TO_MANAGER_DICT)
    /\ USER_TO_MANAGER_DICT[Top.i][2] # Top.user_id
    /\ stack' = SetTop([Top EXCEPT !.i = @ + 1])
    /\ UNCHANGED <<user_hierarchy_map, loop_i, outside_build>>

\* line 27-28 with the memoized return of line 21-22
GatherMemo ==
    /\ pc = "build" /\ stack # <<>>
    /\ Top.i <= Len(USER_TO_MANAGER_DICT)
    /\ USER_TO_MANAGER_DICT[Top.i][2] = Top.user_id
    /\ LET user == USER_TO_MANAGER_DICT[Top.i][1] IN
        /\ user \in DOMAIN user_hierarchy_map
        /\ stack' = SetTop([Top EXCEPT
                               !.subordinates = @ \cup {user} \cup user_hierarchy_map[user],
                               !.i = @ + 1])
    /\ UNCHANGED <<user_hierarchy_map, loop_i, outside_build>>

\* the recursive call made on user_id instead of user
GatherRecurseSelf ==
    /\ pc = "build" /\ stack # <<>>
    /\ Len(stack) < StackCap
    /\ Top.i <= Len(USER_TO_MANAGER_DICT)
    /\ USER_TO_MANAGER_DICT[Top.i][2] = Top.user_id
    /\ LET user == USER_TO_MANAGER_DICT[Top.i][1] IN
        /\ user \notin DOMAIN user_hierarchy_map
        /\ stack' = Append(SetTop([Top EXCEPT !.subordinates = @ \cup {user}]),
                           Frame(Top.user_id))
    /\ UNCHANGED <<user_hierarchy_map, loop_i, outside_build>>

\* the memo entry stored before the recursive call, which stops a cycle
GatherRecurseMarking ==
    /\ pc = "build" /\ stack # <<>>
    /\ Len(stack) < StackCap
    /\ Top.i <= Len(USER_TO_MANAGER_DICT)
    /\ USER_TO_MANAGER_DICT[Top.i][2] = Top.user_id
    /\ LET user == USER_TO_MANAGER_DICT[Top.i][1] IN
        /\ user \notin DOMAIN user_hierarchy_map
        /\ stack' = Append(SetTop([Top EXCEPT !.subordinates = @ \cup {user}]),
                           Frame(user))
        /\ user_hierarchy_map' = Put(user_hierarchy_map, user, {})
    /\ UNCHANGED <<loop_i, outside_build>>

\* line 27-28 entering the recursive call (line 24)
GatherRecurse ==
    /\ pc = "build" /\ stack # <<>>
    /\ Len(stack) < StackCap
    /\ Top.i <= Len(USER_TO_MANAGER_DICT)
    /\ USER_TO_MANAGER_DICT[Top.i][2] = Top.user_id
    /\ LET user == USER_TO_MANAGER_DICT[Top.i][1] IN
        /\ user \notin DOMAIN user_hierarchy_map
        /\ stack' = Append(SetTop([Top EXCEPT !.subordinates = @ \cup {user}]),
                           Frame(user))
    /\ UNCHANGED <<user_hierarchy_map, loop_i, outside_build>>

\* line 29-30, and line 28's update in the caller
GatherReturn ==
    /\ pc = "build" /\ stack # <<>>
    /\ Top.i > Len(USER_TO_MANAGER_DICT)
    /\ user_hierarchy_map' = Put(user_hierarchy_map, Top.user_id, Top.subordinates)
    /\ stack' =
         IF Len(stack) = 1 THEN <<>>
         ELSE LET caller == stack[Len(stack) - 1] IN
              [SubSeq(stack, 1, Len(stack) - 1) EXCEPT ![Len(stack) - 1] =
                  [caller EXCEPT !.subordinates = @ \cup Top.subordinates,
                                 !.i = @ + 1]]
    /\ UNCHANGED <<loop_i, outside_build>>

\* line 35 and the assignment of line 12
BuildDone ==
    /\ pc = "build" /\ stack = <<>>
    /\ loop_i > Len(USER_TO_MANAGER_DICT)
    /\ USER_REPORTS_CHAIN_MAP' = user_hierarchy_map
    /\ pc' = "precompute"
    /\ UNCHANGED <<TARGET_DOMAINS, SUBSCRIPTIONS, USER_TO_MANAGER_DICT,
                   TERM_NOTIFICATIONS_MAP, build_vars, lures, lures_src, call, raised,
                   probe, probe_result>>

\* line 16-33: any step of the closure computation
BuildStep ==
    \/ LoopCallMemo
    \/ LoopCallEnter
    \/ GatherSkip
    \/ GatherMemo
    \/ GatherRecurse
    \/ GatherReturn

-----------------------------------------------------------------------------
(* _precompute_notifications *)

\* the term's set created anew for every pair
AddNotificationOverwrite(term_notifications, term, user_id, chain) ==
    Put(term_notifications, term, {user_id} \cup DictGet(chain, user_id, {}))

\* line 43-46: one (user_id, term) pair
AddNotification(term_notifications, term, user_id, chain) ==
    LET tn == IF term \notin DOMAIN term_notifications
              THEN Put(term_notifications, term, {})
              ELSE term_notifications
    IN  Put(tn, term, tn[term] \cup {user_id} \cup DictGet(chain, user_id, {}))

\* line 42: the loop over one user's terms, from position k
RECURSIVE PrecomputeTerms(_, _, _, _, _)
PrecomputeTerms(term_notifications, user_id, terms, k, chain) ==
    IF k > Len(terms) THEN term_notifications
    ELSE PrecomputeTerms(AddNotification(term_notifications, terms[k], user_id, chain),
                         user_id, terms, k + 1, chain)

\* line 41: the loop over the subscription items, from position k
RECURSIVE PrecomputeUsers(_, _, _, _)
PrecomputeUsers(term_notifications, subscriptions, k, chain) ==
    IF k > Len(subscriptions) THEN term_notifications
    ELSE PrecomputeUsers(
             PrecomputeTerms(term_notifications, subscriptions[k][1],
                             subscriptions[k][2], 1, chain),
             subscriptions, k + 1, chain)

\* line 37-48
PrecomputeNotifications(subscriptions, chain) ==
    PrecomputeUsers(EmptyMap, subscriptions, 1, chain)

\* line 13
Precompute ==
    /\ pc = "precompute"
    /\ TERM_NOTIFICATIONS_MAP' =
         PrecomputeNotifications(SUBSCRIPTIONS, USER_REPORTS_CHAIN_MAP)
    /\ pc' = "query"
    /\ UNCHANGED <<TARGET_DOMAINS, SUBSCRIPTIONS, USER_TO_MANAGER_DICT,
                   USER_REPORTS_CHAIN_MAP, build_vars, lures, lures_src, call,
                   raised, probe, probe_result>>

-----------------------------------------------------------------------------
(* identify_lures *)

\* line 68
MatchedTerms(lower_domain) ==
    LET Match(term) == Contains(term, lower_domain)
    IN  SelectSeq(TERMS, Match)

\* line 65-68 for every domain of the model, each evaluated once
matched_terms_of == [domain \in Domains |-> MatchedTerms(lower(domain))]

\* a threshold of more than two terms
IsLureAboveTwo(matched_terms) == Len(matched_terms) > 2

\* line 71
IsLure(matched_terms) == Len(matched_terms) >= 2

\* line 63-72: the loop over the domains, from position k
RECURSIVE IdentifyLoop(_, _, _)
IdentifyLoop(domains, k, acc) ==
    IF k > Len(domains) THEN acc
    ELSE LET matched_terms == matched_terms_of[domains[k]]
         IN  IdentifyLoop(domains, k + 1,
                          IF IsLure(matched_terms)
                          THEN Append(acc, <<domains[k], matched_terms>>)
                          ELSE acc)

\* the loop run over the stored list before the argument is stored
identify_lures_stale(domains) ==
    /\ pc = "query" /\ ~raised
    /\ TARGET_DOMAINS' = domains
    /\ LET result == IdentifyLoop(TARGET_DOMAINS, 1, <<>>) IN
        /\ call' = [op |-> "identify_lures", arg |-> domains, ret |-> result]
        /\ lures' = result
        /\ lures_src' = <<domains>>
    /\ UNCHANGED <<instance_maps, pc, build_vars, raised, probe, probe_result>>

\* the argument not stored
identify_lures_unstored(domains) ==
    /\ pc = "query" /\ ~raised
    /\ LET result == IdentifyLoop(domains, 1, <<>>) IN
        /\ call' = [op |-> "identify_lures", arg |-> domains, ret |-> result]
        /\ lures' = result
        /\ lures_src' = <<domains>>
    /\ UNCHANGED <<instance_maps, TARGET_DOMAINS, pc, build_vars, raised, probe,
                   probe_result>>

\* line 51-74
identify_lures(domains) ==
    /\ pc = "query" /\ ~raised
    /\ TARGET_DOMAINS' = domains
    /\ LET result == IdentifyLoop(domains, 1, <<>>) IN
        /\ call' = [op |-> "identify_lures", arg |-> domains, ret |-> result]
        /\ lures' = result
        /\ lures_src' = <<domains>>
    /\ UNCHANGED <<instance_maps, pc, build_vars, raised, probe, probe_result>>

-----------------------------------------------------------------------------
(* notify *)

\* the value a raising lookup stands for
KeyError == {"KeyError"}

\* self.TERM_NOTIFICATIONS_MAP[term], which raises on a missing key
TermGetStrict(term_notifications, term) ==
    IF term \in DOMAIN term_notifications THEN term_notifications[term] ELSE KeyError

\* line 95: self.TERM_NOTIFICATIONS_MAP.get(term, set())
TermGet(term_notifications, term) == DictGet(term_notifications, term, {})

\* line 94-95: the loop over one lure's terms, from position k
RECURSIVE UsersToNotify(_, _, _, _)
UsersToNotify(term_notifications, terms, k, acc) ==
    IF k > Len(terms) THEN acc
    ELSE LET got == TermGet(term_notifications, terms[k])
         IN  IF got = KeyError THEN KeyError
             ELSE UsersToNotify(term_notifications, terms, k + 1, acc \cup got)

\* line 100: list(users_to_notify), in whatever order the set iterates
ListsOf(S) ==
    {l \in [1..Cardinality(S) -> S] : \A i, j \in 1..Cardinality(S) : l[i] = l[j] => i = j}

\* line 90-100: the loop over the lures, from position k; every possible outcome
RECURSIVE NotifyLoop(_, _, _, _)
NotifyLoop(term_notifications, lure_list, k, domain_notifications) ==
    IF k > Len(lure_list)
    THEN {[raised |-> FALSE, ret |-> domain_notifications]}
    ELSE LET users == UsersToNotify(term_notifications, lure_list[k][2], 1, {})
         IN  IF users = KeyError
             THEN {[raised |-> TRUE, ret |-> <<>>]}
             ELSE UNION {NotifyLoop(term_notifications, lure_list, k + 1,
                                    DictSet(domain_notifications, lure_list[k][1], l))
                         : l \in ListsOf(users)}

\* a returned dict with each user list read as a set
AsSets(notifications) ==
    [i \in 1..Len(notifications) |->
        <<notifications[i][1],
          {notifications[i][2][j] : j \in 1..Len(notifications[i][2])}>>]

\* line 76-102, called with the lure list the caller holds
notify ==
    /\ pc = "query" /\ ~raised
    /\ \E out \in NotifyLoop(TERM_NOTIFICATIONS_MAP, lures, 1, <<>>) :
        /\ call' = [op |-> "notify", arg |-> lures, ret |-> out.ret]
        /\ raised' = out.raised
        /\ probe_result' =
             IF lures_src # <<probe>> \/ out.raised THEN probe_result
             ELSE IF probe_result = <<>>
                  THEN <<[first |-> AsSets(out.ret), again |-> FALSE]>>
                  ELSE <<[probe_result[1] EXCEPT !.again = TRUE]>>
    /\ UNCHANGED <<instance_maps, TARGET_DOMAINS, pc, build_vars, lures,
                   lures_src, probe>>

-----------------------------------------------------------------------------
(* __init__ and the specifications *)

\* line 7-10: the state on entry to line 12
InitWith(hierarchies, subscriptions, domain_lists, probes) ==
    /\ TARGET_DOMAINS \in domain_lists
    /\ SUBSCRIPTIONS \in subscriptions
    /\ USER_TO_MANAGER_DICT \in hierarchies
    /\ USER_REPORTS_CHAIN_MAP = EmptyMap
    /\ TERM_NOTIFICATIONS_MAP = EmptyMap
    /\ pc = "build"
    /\ user_hierarchy_map = EmptyMap
    /\ stack = <<>>
    /\ loop_i = 1
    /\ lures = <<>>
    /\ lures_src = <<>>
    /\ call = [op |-> "__init__", arg |-> <<>>, ret |-> <<>>]
    /\ raised = FALSE
    /\ probe \in probes
    /\ probe_result = <<>>

\* every manager dict, the example subscriptions
Init == InitWith(ManagerDicts, {SubsExample}, {TestDomains}, {TestDomains})

\* every subscription dict, sample hierarchies
InitSubs == InitWith(HierarchySamples, SubscriptionDicts, {TestDomains}, {TestDomains})

\* sample hierarchies and subscriptions
InitQuery ==
    InitWith(HierarchySamples, SubscriptionSamples, CtorDomainSamples, {TestDomains})

\* the example chain and subscriptions, every probed domain list
InitProbe ==
    InitWith({ChainTopDown, ChainBottomUp}, {SubsExample}, CtorDomainSamples,
             DomainLists)

Next ==
    \/ LoopCallMemo
    \/ LoopCallEnter
    \/ GatherSkip
    \/ GatherMemo
    \/ GatherRecurse
    \/ GatherReturn
    \/ BuildDone
    \/ Precompute
    \/ \E domains \in DomainLists : identify_lures(domains)
    \/ notify

\* the same instance queried with the sample domain lists only
NextSamples ==
    \/ LoopCallMemo
    \/ LoopCallEnter
    \/ GatherSkip
    \/ GatherMemo
    \/ GatherRecurse
    \/ GatherReturn
    \/ BuildDone
    \/ Precompute
    \/ \E domains \in CtorDomainSamples : identify_lures(domains)
    \/ notify

Spec == Init /\ [][NextSamples]_vars

SpecSubs == InitSubs /\ [][NextSamples]_vars

SpecQuery == InitQuery /\ [][Next]_vars

SpecProbe == InitProbe /\ [][Next]_vars

\* the interpreter runs __init__ to its end: a construction step that can be taken is taken
FairSpec == Init /\ [][NextSamples]_vars /\ WF_vars(BuildStep \/ BuildDone \/ Precompute)

-----------------------------------------------------------------------------
(* The reporting hierarchy read off the manager dict by walking upwards *)

ManagersOf(d, S) == {d[i][2] : i \in {j \in 1..Len(d) : d[j][1] \in S}}

\* the users reached from S by 1..k manager links
RECURSIVE AncestorsWithin(_, _, _)
AncestorsWithin(d, S, k) ==
    IF k = 0 THEN {}
    ELSE LET M == ManagersOf(d, S) IN M \cup AncestorsWithin(d, M, k - 1)

Ancestors(d, u) == AncestorsWithin(d, {u}, Len(d))

\* the users who report to m directly or transitively
Subordinates(d, m) == {u \in Keys(d) : m \in Ancestors(d, u)}

OnCycle(d, u) == u \in Ancestors(d, u)

Acyclic(d) == \A u \in Keys(d) : ~OnCycle(d, u)

\* the users that appear as a key or as a value
Mentioned(d) == Keys(d) \cup {d[i][2] : i \in 1..Len(d)}

Range(seq) == {seq[i] : i \in 1..Len(seq)}

NoDuplicates(seq) == \A i, j \in 1..Len(seq) : seq[i] = seq[j] => i = j

\* position of k among the members of the index set I
Rank(I, k) == Cardinality({j \in I : j <= k})

-----------------------------------------------------------------------------
(* C1 *)

CaseInsensitiveEq(a, b) ==
    \/ a = b
    \/ \E i \in 1..Len(UpperCase) : {a, b} = {UpperCase[i], LowerCase[i]}

\* the vocabulary positions of the terms that occur in the domain, case ignored
Matching ==
    [domain \in Domains |->
        {t \in 1..Len(TERMS) :
            \E off \in 0..Len(domain) :
                /\ off + Len(TERMS[t]) <= Len(domain)
                /\ \A i \in 1..Len(TERMS[t]) :
                      CaseInsensitiveEq(domain[off + i], TERMS[t][i])}]

\* terms lists exactly the vocabulary terms at the positions M, in vocabulary order
InVocabularyOrder(terms, M) ==
    /\ Len(terms) = Cardinality(M)
    /\ \A m \in M : terms[Rank(M, m)] = TERMS[m]

-----------------------------------------------------------------------------
(* C2 *)

\* C2: after construction from an acyclic manager map, every user that is a key
\* or a value of the map has a chain-map entry, equal to the set of the users
\* who report to that user directly or transitively.
C2_ChainMapCoversEveryUser ==
    (pc = "query" /\ Acyclic(USER_TO_MANAGER_DICT)) =>
        \A u \in Mentioned(USER_TO_MANAGER_DICT) :
            /\ u \in DOMAIN USER_REPORTS_CHAIN_MAP
            /\ USER_REPORTS_CHAIN_MAP[u] = Subordinates(USER_TO_MANAGER_DICT, u)

\* what line 32 does establish: the entries are those of the keys, each correct
ChainMapCoversKeys ==
    (pc = "query" /\ Acyclic(USER_TO_MANAGER_DICT)) =>
        /\ DOMAIN USER_REPORTS_CHAIN_MAP = Keys(USER_TO_MANAGER_DICT)
        /\ \A u \in Keys(USER_TO_MANAGER_DICT) :
              USER_REPORTS_CHAIN_MAP[u] = Subordinates(USER_TO_MANAGER_DICT, u)

-----------------------------------------------------------------------------
(* C3 *)

SubscribedTerms(S) == UNION {Range(S[i][2]) : i \in 1..Len(S)}

SubscribersOf(S, T) == {S[i][1] : i \in {j \in 1..Len(S) : T \in Range(S[j][2])}}

\* C3: after construction from an acyclic manager map, the notify-set of every
\* subscribed term is exactly its subscribers and their direct or transitive
\* subordinates.
C3_TermMapIsSubscriberClosure ==
    (pc = "query" /\ Acyclic(USER_TO_MANAGER_DICT)) =>
        \A T \in SubscribedTerms(SUBSCRIPTIONS) :
            /\ T \in DOMAIN TERM_NOTIFICATIONS_MAP
            /\ TERM_NOTIFICATIONS_MAP[T] =
                 UNION {{u} \cup Subordinates(USER_TO_MANAGER_DICT, u) :
                        u \in SubscribersOf(SUBSCRIPTIONS, T)}

-----------------------------------------------------------------------------
(* C4 *)

\* C4: notify returns one entry per distinct lure domain, in order of first
\* occurrence, empty notify-sets included; an entry's users hold no duplicate
\* and are, as a set, the union of the notify-sets of the domain's matched
\* terms, a term without a notify-set adding nothing.
C4_NotifyIsUnionPerDomain ==
    call.op = "notify" =>
        LET L == call.arg
            R == call.ret
            I == {k \in 1..Len(L) : \A j \in 1..(k - 1) : L[j][1] # L[k][1]}
        IN  /\ ~raised
            /\ Len(R) = Cardinality(I)
            /\ \A k \in I :
                  /\ R[Rank(I, k)][1] = L[k][1]
                  /\ NoDuplicates(R[Rank(I, k)][2])
                  /\ Range(R[Rank(I, k)][2]) =
                       UNION {IF t \in DOMAIN TERM_NOTIFICATIONS_MAP
                              THEN TERM_NOTIFICATIONS_MAP[t] ELSE {} :
                              t \in Range(L[k][2])}

\* a repeated lure domain with one entry, whose two terms share a user
C4_Witness ==
    /\ call.op = "notify"
    /\ Len(call.arg) = 2
    /\ call.arg[1][1] = CiscoMailCom /\ call.arg[2][1] = CiscoMailCom
    /\ Len(call.ret) = 1
    /\ Len(call.ret[1][2]) >= 2
    /\ {cisco, mail} \subseteq DOMAIN TERM_NOTIFICATIONS_MAP
    /\ TERM_NOTIFICATIONS_MAP[cisco] \cap TERM_NOTIFICATIONS_MAP[mail] # {}
    /\ TERM_NOTIFICATIONS_MAP[cisco] # TERM_NOTIFICATIONS_MAP[mail]

-----------------------------------------------------------------------------
(* C5 *)

\* C5: in the query phase every call leaves USER_REPORTS_CHAIN_MAP,
\* TERM_NOTIFICATIONS_MAP, SUBSCRIPTIONS and USER_TO_MANAGER_DICT as they are;
\* identify_lures sets TARGET_DOMAINS to its argument, notify leaves it alone.
C5_QueriesTouchOnlyTargetDomains ==
    [][pc = "query" =>
          /\ instance_maps' = instance_maps
          /\ pc' = "query"
          /\ (call'.op = "identify_lures" => TARGET_DOMAINS' = call'.arg)
          /\ (call'.op = "notify" => TARGET_DOMAINS' = TARGET_DOMAINS)]_vars

\* both calls have run on built, non-empty maps and the stored list is a new one
C5_Witness ==
    /\ pc = "query"
    /\ call.op = "notify"
    /\ lures_src = <<TARGET_DOMAINS>>
    /\ TARGET_DOMAINS = <<GmailGov>>
    /\ DOMAIN TERM_NOTIFICATIONS_MAP # {}
    /\ \E u \in DOMAIN USER_REPORTS_CHAIN_MAP : USER_REPORTS_CHAIN_MAP[u] # {}

-----------------------------------------------------------------------------
(* C6 *)

\* C6: from an acyclic manager map construction terminates in the query phase,
\* and no call ever raises.
C6_ConstructionTerminates ==
    /\ Acyclic(USER_TO_MANAGER_DICT) ~> pc = "query"
    /\ [](Acyclic(USER_TO_MANAGER_DICT) => ~raised)

\* a chain two levels deep has been resolved and queried
C6_Witness ==
    /\ pc = "query"
    /\ Acyclic(USER_TO_MANAGER_DICT)
    /\ \E u \in Users : Cardinality(Subordinates(USER_TO_MANAGER_DICT, u)) >= 2
    /\ call.op = "notify"
    /\ Len(call.ret) >= 1

-----------------------------------------------------------------------------
(* C7 *)

\* C7: with a cycle in the manager map, construction stays in the closure
\* computation: the loop of line 32 never ends, nothing is raised, no user on a
\* cycle gets a chain-map entry and the query phase is never reached.
C7_CycleNeverLeavesBuild ==
    ~Acyclic(USER_TO_MANAGER_DICT) =>
        /\ pc = "build"
        /\ ~raised
        /\ ~(stack = <<>> /\ loop_i > Len(USER_TO_MANAGER_DICT))
        /\ \A u \in Users :
              OnCycle(USER_TO_MANAGER_DICT, u) => u \notin DOMAIN user_hierarchy_map

\* the recursion has gone round a two-user cycle up to the depth the model follows,
\* after the loop had already resolved another key
C7_Witness ==
    /\ ~Acyclic(USER_TO_MANAGER_DICT)
    /\ Len(stack) = StackCap
    /\ stack[1].user_id = stack[3].user_id
    /\ stack[1].user_id # stack[2].user_id
    /\ loop_i > 2

-----------------------------------------------------------------------------
(* C8 *)

\* C8: notify(identify_lures(D)) returns the same domains in the same order with
\* the same user sets as the first time it was called with D on the instance,
\* whatever was called in between and whatever list the constructor was given.
C8_SameResultWhateverCameBefore ==
    (call.op = "notify" /\ lures_src = <<probe>> /\ probe_result # <<>>) =>
        /\ ~raised
        /\ AsSets(call.ret) = probe_result[1].first

\* the call has been made again, for a list with a lure that two users are notified of
C8_Witness ==
    /\ call.op = "notify"
    /\ lures_src = <<probe>>
    /\ probe_result # <<>>
    /\ probe_result[1].again
    /\ probe = <<CiscoHerokuCom, CiscoMailCom>>
    /\ Len(call.ret) = 1
    /\ Len(call.ret[1][2]) = 2

-----------------------------------------------------------------------------
(* C9 *)

InsertAt(seq, p, x) == SubSeq(seq, 1, p - 1) \o <<x>> \o SubSeq(seq, p, Len(seq))

\* every subscription dict that is S with the subscription (U, T) added
WithSubscription(S, U, T) ==
    IF U \in Keys(S)
    THEN LET i == CHOOSE j \in 1..Len(S) : S[j][1] = U
         IN  {[S EXCEPT ![i] = <<U, InsertAt(S[i][2], p, T)>>] :
                 p \in 1..(Len(S[i][2]) + 1)}
    ELSE {InsertAt(S, p, <<U, <<T>> >>) : p \in 1..(Len(S) + 1)}

\* C9: for an acyclic manager map, adding one subscription (U, T) never removes
\* a user from the notify-set of T that construction has just built.
C9_AddingSubscriberOnlyGrows ==
    (pc = "query" /\ call.op = "__init__" /\ Acyclic(USER_TO_MANAGER_DICT)) =>
        \A U \in Users : \A T \in SubTerms :
            \A S2 \in WithSubscription(SUBSCRIPTIONS, U, T) :
                DictGet(TERM_NOTIFICATIONS_MAP, T, {}) \subseteq
                    DictGet(PrecomputeNotifications(S2, USER_REPORTS_CHAIN_MAP), T, {})

\* a term that C and A subscribe to gains B as a subscriber, who has C as a report
C9_Witness ==
    /\ pc = "query" /\ call.op = "__init__"
    /\ USER_TO_MANAGER_DICT = ChainBottomUp
    /\ Len(SUBSCRIPTIONS) = 2
    /\ mail \in DOMAIN TERM_NOTIFICATIONS_MAP
    /\ TERM_NOTIFICATIONS_MAP[mail] = {"A", "C"}
    /\ \E S2 \in WithSubscription(SUBSCRIPTIONS, "B", mail) :
          PrecomputeNotifications(S2, USER_REPORTS_CHAIN_MAP)[mail] = {"A", "B", "C"}

-----------------------------------------------------------------------------
(* C10 *)

\* C10: nothing raises; with no subscription the term-notification map has no
\* key and notify returns an empty user list for every lure; identify_lures of
\* the empty domain list is empty, and so is notify of the empty lure list.
C10_EmptyInputsAreValid ==
    /\ ~raised
    /\ (pc = "query" /\ SUBSCRIPTIONS = <<>>) =>
          /\ DOMAIN TERM_NOTIFICATIONS_MAP = {}
          /\ call.op = "notify" =>
                /\ \A k \in 1..Len(call.arg) :
                      \E e \in Range(call.ret) : e[1] = call.arg[k][1]
                /\ \A e \in Range(call.ret) : e[2] = <<>>
    /\ (call.op = "identify_lures" /\ call.arg = <<>>) => call.ret = <<>>
    /\ (call.op = "notify" /\ call.arg = <<>>) => call.ret = <<>>

\* no subscription, and notify has answered for the two lures of the test list
C10_Witness ==
    /\ SUBSCRIPTIONS = <<>>
    /\ call.op = "notify"
    /\ TARGET_DOMAINS = TestDomains
    /\ Len(call.ret) = 2
    /\ call.ret[1][2] = <<>>

====
